---- MODULE Spec2Model ----
\* Model of rigel_local_simulation_plugin/plugin.py: the requirement status
\* handler (ROSBridgeClient.__message_handler), the aggregation over bridge
\* clients (requirements_satisfied, breakpoint_satisfied, get_requirements)
\* and the life cycle driven by Plugin.run (bring-up, polling loop, teardown,
\* report).  The Docker client and the rosbridge library are the environment:
\* each of their calls either returns or raises.
EXTENDS Integers, Sequences, FiniteSets, TLC

\* ---------------------------------------------------------------- bounds
MaxPackages == 2   \* configured packages (the master is added by the plugin)
MaxReqs     == 2   \* introspection requirements over the whole configuration
MaxCalls    == 2   \* messages the bridges deliver in one run
Timeout     == 1   \* Plugin.timeout, in clock ticks
MaxValue    == 2   \* declared values of the requirements of SpecRequirement

\* ------------------------------------------------------------ data model
None == "None"

ConditionEnum ==
  {"DIFFERENT", "EQUALS", "GREATER", "GREATER_THAN", "LESSER", "LESSER_THAN", "RECEIVED"}

\* SimulationRequirement.validate_date: a requirement without a field is
\* rejected unless its condition is RECEIVED.
\* Mutant: the test on the condition is inverted.
validate_date_inverted(condition, field) ==
  ~ (field = None /\ condition \in {"RECEIVED"})

validate_date(condition, field) ==
  ~ (field = None /\ condition \notin {"RECEIVED"})

Kind(condition, field, breakpoint) ==
  [condition |-> condition, value |-> 1, breakpoint |-> breakpoint, field |-> field]

\* The requirement declarations the configurations draw from (topic left
\* open): those that pass the validator.
RequirementKinds ==
  { k \in { Kind("EQUALS", "state", FALSE),
            Kind("RECEIVED", None, FALSE),
            Kind("RECEIVED", None, TRUE) } :
      validate_date(k.condition, k.field) }

\* SimulationRequirement: every declaration listens on a topic of its own.
SimulationRequirement(k, p, n) ==
  [condition |-> k.condition, message |-> "Msg", topic |-> <<p, n>>,
   value |-> k.value, breakpoint |-> k.breakpoint, field |-> k.field]

\* ROSPackageContainer: name and introspection list.
ROSPackageContainer(name, kinds) ==
  [name |-> name,
   introspection |-> [n \in 1..Len(kinds) |-> SimulationRequirement(kinds[n], name, n)]]

MasterName == 0

KindSeqs == UNION { [1..n -> RequirementKinds] : n \in 0..MaxReqs }

RECURSIVE TotalReqs(_, _)
TotalReqs(f, n) == IF n = 0 THEN 0 ELSE Len(f[n]) + TotalReqs(f, n - 1)

\* The configured package lists: 1..MaxPackages packages named 1, 2, ...,
\* holding at most MaxReqs requirements between them.
Configurations ==
  UNION { { [p \in 1..n |-> ROSPackageContainer(p, ks[p])] :
              ks \in { f \in [1..n -> KindSeqs] : TotalReqs(f, n) <= MaxReqs } } :
          n \in 1..MaxPackages }

\* Decoded messages: the field is missing, holds an integer, or holds a
\* value of another type (a string).
Messages ==
  {[kind |-> "missing", val |-> 0], [kind |-> "str", val |-> 0]}
    \cup { [kind |-> "int", val |-> v] : v \in 0..(MaxValue + 1) }

VARIABLES
  packages,     \* Plugin.packages
  network,      \* the dedicated Docker network: "none", "created", "removed"
  netRemoval,   \* remove_network has been called
  started,      \* names of the containers that exist
  targeted,     \* names remove_container has been called with
  clients,      \* Plugin._clients
  status,       \* ROSBridgeClient.status (class attribute)
  pc,           \* position of Plugin.run
  i,            \* index of the package the current loop is at
  j,            \* index of the requirement being registered
  passed_time,  \* time.time() - initial_time as the loop last read it
  outcome,      \* the branch that left the polling loop
  error,        \* the call whose exception left Plugin.run
  handlerError, \* the last call of __message_handler raised
  report,       \* result of Plugin.get_requirements in run
  pending,      \* <<s, message>>: the handler of status s is between its
                \* first statement and the rest, called with message
  delivered     \* history: messages handed to the callback of each listener

vars == <<packages, network, netRemoval, started, targeted, clients, status,
          pc, i, j, passed_time, outcome, error, handlerError, report,
          pending, delivered>>

\* ------------------------------------------------- ROSBridgeClient (reads)
\* self.status resolves to the class attribute ROSBridgeClient.status: no
\* instance ever assigns it, so every client reads and appends to one list.
ClientStatus(client) == status

RECURSIVE client_requirements_satisfied_from(_, _)
client_requirements_satisfied_from(st, n) ==
  IF n > Len(st) THEN TRUE
  ELSE IF ~ st[n].satisfied THEN FALSE
  ELSE client_requirements_satisfied_from(st, n + 1)

ROSBridgeClient_requirements_satisfied(client) ==
  client_requirements_satisfied_from(ClientStatus(client), 1)

RECURSIVE client_breakpoint_satisfied_from(_, _)
client_breakpoint_satisfied_from(st, n) ==
  IF n > Len(st) THEN FALSE
  ELSE IF st[n].requirement.breakpoint /\ st[n].satisfied THEN TRUE
  ELSE client_breakpoint_satisfied_from(st, n + 1)

\* Mutant: the breakpoint flag of the requirement is not looked at.
RECURSIVE client_any_satisfied_from(_, _)
client_any_satisfied_from(st, n) ==
  IF n > Len(st) THEN FALSE
  ELSE IF st[n].satisfied THEN TRUE
  ELSE client_any_satisfied_from(st, n + 1)

ROSBridgeClient_breakpoint_satisfied_unflagged(client) ==
  client_any_satisfied_from(ClientStatus(client), 1)

ROSBridgeClient_breakpoint_satisfied(client) ==
  client_breakpoint_satisfied_from(ClientStatus(client), 1)

\* The report line of one status: "{} ({}) - {} {} {}" with the field,
\* "{} ({}) - {} {}" without it.
FormatMessage(rs) ==
  IF rs.requirement.field # None
  THEN <<rs.satisfied, <<rs.requirement.topic, rs.requirement.message,
                         rs.requirement.field, rs.requirement.condition,
                         rs.requirement.value>> >>
  ELSE <<rs.satisfied, <<rs.requirement.topic, rs.requirement.message,
                         rs.requirement.condition, rs.requirement.value>> >>

RECURSIVE client_get_requirements_from(_, _, _, _)
client_get_requirements_from(st, n, reqs, bps) ==
  IF n > Len(st) THEN <<reqs, bps>>
  ELSE IF st[n].requirement.breakpoint
       THEN client_get_requirements_from(st, n + 1, reqs, Append(bps, FormatMessage(st[n])))
       ELSE client_get_requirements_from(st, n + 1, Append(reqs, FormatMessage(st[n])), bps)

ROSBridgeClient_get_requirements(client) ==
  client_get_requirements_from(ClientStatus(client), 1, <<>>, <<>>)

\* ---------------------------------------------------------- Plugin (reads)
RECURSIVE plugin_requirements_satisfied_from(_)
plugin_requirements_satisfied_from(c) ==
  IF c > Len(clients) THEN TRUE
  ELSE IF ~ ROSBridgeClient_requirements_satisfied(clients[c]) THEN FALSE
  ELSE plugin_requirements_satisfied_from(c + 1)

\* Mutant: the guard on an empty client list is dropped.
Plugin_requirements_satisfied_unguarded == plugin_requirements_satisfied_from(1)

Plugin_requirements_satisfied ==
  IF clients = <<>> THEN FALSE ELSE plugin_requirements_satisfied_from(1)

RECURSIVE plugin_breakpoint_satisfied_from(_)
plugin_breakpoint_satisfied_from(c) ==
  IF c > Len(clients) THEN FALSE
  ELSE IF ROSBridgeClient_breakpoint_satisfied(clients[c]) THEN TRUE
  ELSE plugin_breakpoint_satisfied_from(c + 1)

Plugin_breakpoint_satisfied ==
  IF clients = <<>> THEN FALSE ELSE plugin_breakpoint_satisfied_from(1)

RECURSIVE plugin_get_requirements_from(_, _, _)
plugin_get_requirements_from(c, reqs, bps) ==
  IF c > Len(clients) THEN <<reqs, bps>>
  ELSE LET got == ROSBridgeClient_get_requirements(clients[c])
       IN  plugin_get_requirements_from(c + 1, reqs \o got[1], bps \o got[2])

Plugin_get_requirements == plugin_get_requirements_from(1, <<>>, <<>>)

\* ------------------------------------------------------------------ Init
Init ==
  /\ packages \in Configurations
  /\ network = "none"
  /\ netRemoval = FALSE
  /\ started = {}
  /\ targeted = {}
  /\ clients = <<>>
  /\ status = <<>>
  /\ pc = "idle"
  /\ i = 0
  /\ j = 0
  /\ passed_time = 0
  /\ outcome = "unset"
  /\ error = "none"
  /\ handlerError = FALSE
  /\ report = <<>>
  /\ pending = {}
  /\ delivered = <<>>

\* An exception leaves Plugin.run: nothing in run, bringup_* or stop catches.
Raise(what) ==
  /\ pc' = "failed"
  /\ error' = what

\* ------------------------------------------------------------- bring-up
\* bringup_simulation_infrastructure: create the network, put the master
\* first in the package list, enter the loop of bringup_ros_nodes.
\* Mutant: the master is appended to the package list, not put first.
CreateNetwork_master_last ==
  /\ pc = "idle"
  /\ network' = "created"
  /\ packages' = packages \o <<ROSPackageContainer(MasterName, <<>>)>>
  /\ pc' = "start"
  /\ i' = 1
  /\ UNCHANGED <<netRemoval, started, targeted, clients, status, j, passed_time,
                 outcome, error, handlerError, report, pending, delivered>>

CreateNetwork ==
  /\ pc = "idle"
  /\ network' = "created"
  /\ packages' = <<ROSPackageContainer(MasterName, <<>>)>> \o packages
  /\ pc' = "start"
  /\ i' = 1
  /\ UNCHANGED <<netRemoval, started, targeted, clients, status, j, passed_time,
                 outcome, error, handlerError, report,
                 pending, delivered>>

CreateNetworkFail ==
  /\ pc = "idle"
  /\ Raise("create_network")
  /\ UNCHANGED <<packages, network, netRemoval, started, targeted, clients,
                 status, i, j, passed_time, outcome, handlerError, report,
                 pending, delivered>>

\* The loop of bringup_ros_nodes moves to the next package; after the last
\* one run records initial_time and enters the polling loop.
NextPackage ==
  IF i < Len(packages)
  THEN /\ pc' = "start"
       /\ i' = i + 1
  ELSE /\ pc' = "loop_time"
       /\ i' = 0

\* Mutant: the introspection list is not looked at, no bridge is connected.
StartContainer_no_connect ==
  /\ pc = "start"
  /\ started' = started \cup {packages[i].name}
  /\ NextPackage
  /\ UNCHANGED <<packages, network, netRemoval, targeted, clients, status, j,
                 passed_time, outcome, error, handlerError, report,
                 pending, delivered>>

\* run_ros_package_container and the address lookup succeed.
StartContainer ==
  /\ pc = "start"
  /\ started' = started \cup {packages[i].name}
  /\ IF packages[i].introspection # <<>>
     THEN /\ pc' = "connect"
          /\ i' = i
     ELSE NextPackage
  /\ UNCHANGED <<packages, network, netRemoval, targeted, clients, status, j,
                 passed_time, outcome, error, handlerError, report,
                 pending, delivered>>

\* run_container raises: no container was created.
StartContainerFail ==
  /\ pc = "start"
  /\ Raise("run_container")
  /\ UNCHANGED <<packages, network, netRemoval, started, targeted, clients,
                 status, i, j, passed_time, outcome, handlerError, report,
                 pending, delivered>>

\* wait_for_container_status, get_container or the address lookup raises:
\* the container exists.
StartContainerFailRunning ==
  /\ pc = "start"
  /\ started' = started \cup {packages[i].name}
  /\ Raise("wait_for_container")
  /\ UNCHANGED <<packages, network, netRemoval, targeted, clients, status,
                 i, j, passed_time, outcome, handlerError, report,
                 pending, delivered>>

\* ROSBridgeClient.__init__ returns: the bridge is connected.
ConnectBridge ==
  /\ pc = "connect"
  /\ pc' = "register"
  /\ j' = 1
  /\ UNCHANGED <<packages, network, netRemoval, started, targeted, clients,
                 status, i, passed_time, outcome, error, handlerError, report,
                 pending, delivered>>

\* roslibpy.Ros.run(timeout=60) raises.
ConnectBridgeFail ==
  /\ pc = "connect"
  /\ Raise("connect")
  /\ UNCHANGED <<packages, network, netRemoval, started, targeted, clients,
                 status, i, j, passed_time, outcome, handlerError, report,
                 pending, delivered>>

\* RequirementStatus(requirement, listener) as add_requirement builds it.
RequirementStatus(requirement, owner) ==
  [requirement |-> requirement, owner |-> owner, calls |-> 0,
   satisfied |-> FALSE, listener |-> "subscribed"]

\* add_requirement for the j-th requirement of package i; after the last
\* one the client is appended to _clients.
AddRequirement ==
  /\ pc = "register"
  /\ status' = Append(status,
                 RequirementStatus(packages[i].introspection[j], packages[i].name))
  /\ IF j < Len(packages[i].introspection)
     THEN /\ j' = j + 1
          /\ UNCHANGED <<clients, pc, i>>
     ELSE /\ j' = 0
          /\ clients' = Append(clients, [host |-> packages[i].name])
          /\ NextPackage
  /\ delivered' = Append(delivered, 0)
  /\ UNCHANGED <<packages, network, netRemoval, started, targeted, passed_time,
                 outcome, error, handlerError, report, pending>>

\* Creating the topic or subscribing raises, before the status is appended.
AddRequirementFail ==
  /\ pc = "register"
  /\ Raise("subscribe")
  /\ UNCHANGED <<packages, network, netRemoval, started, targeted, clients,
                 status, i, j, passed_time, outcome, handlerError, report,
                 pending, delivered>>

\* ------------------------------------------------------ message handler
\* The comparison of __message_handler: raised is TRUE when message[field]
\* or the comparison raises, result is the value assigned to satisfied.
Compare(requirement, message) ==
  LET c == requirement.condition
      v == requirement.value
      ordered == c \in {"GREATER", "GREATER_THAN", "LESSER", "LESSER_THAN"}
  IN  IF message.kind = "missing"
      THEN [raised |-> TRUE, result |-> FALSE]
      ELSE IF message.kind = "str"
      THEN IF ordered THEN [raised |-> TRUE, result |-> FALSE]
           ELSE [raised |-> FALSE, result |-> (c = "DIFFERENT")]
      ELSE [raised |-> FALSE,
            result |-> CASE c = "DIFFERENT"    -> message.val # v
                         [] c = "EQUALS"       -> message.val = v
                         [] c = "GREATER"      -> message.val > v
                         [] c = "GREATER_THAN" -> message.val >= v
                         [] c = "LESSER"       -> message.val < v
                         [] c = "LESSER_THAN"  -> message.val <= v]

\* Mutant: RECEIVED is satisfied from the declared count on.
Evaluate_at_least(requirement, message, calls) ==
  IF requirement.condition = "RECEIVED"
  THEN [raised |-> FALSE, result |-> (calls >= requirement.value)]
  ELSE Compare(requirement, message)

Evaluate(requirement, message, calls) ==
  IF requirement.condition = "RECEIVED"
  THEN [raised |-> FALSE, result |-> (calls = requirement.value)]
  ELSE Compare(requirement, message)

\* Mutant: the comparison runs before the count; the count is left to the
\* rest of the handler.
handler_count_after(rs, message) ==
  LET ev == Evaluate(rs.requirement, message, rs.calls + 1)
  IN  IF ev.raised THEN rs ELSE [rs EXCEPT !.satisfied = ev.result]

\* Mutant: the count comes after the field access, which raises first.
handler_count_if_field(rs, message) ==
  IF rs.requirement.condition # "RECEIVED" /\ message.kind = "missing"
  THEN rs
  ELSE [rs EXCEPT !.calls = rs.calls + 1]

\* The first statement of __message_handler: calls = calls + 1.
handler_count(rs, message) ==
  [rs EXCEPT !.calls = rs.calls + 1]

\* The rest of __message_handler: the comparison, the assignment to
\* satisfied and, when satisfied, listener.unsubscribe(), which asks the
\* bridge to stop sending.  Nothing is assigned when the comparison raises.
handler_evaluate(rs, message) ==
  LET ev == Evaluate(rs.requirement, message, rs.calls)
  IN  IF ev.raised
      THEN rs
      ELSE [rs EXCEPT !.satisfied = ev.result,
                      !.listener = IF ev.result THEN "unsubscribing" ELSE rs.listener]

\* __message_handler(requirement_status, message): the status it leaves.
message_handler(rs, message) ==
  handler_evaluate(handler_count(rs, message), message)

RECURSIVE TotalCalls(_)
TotalCalls(n) == IF n = 0 THEN 0 ELSE status[n].calls + TotalCalls(n - 1)

Running == pc \notin {"failed", "done"}

\* The bridge delivers a message to the listener of status s: its container
\* runs, and the listener is subscribed or the message was already on its way
\* when the listener asked to unsubscribe.
Deliver(s, message) ==
  /\ Running
  /\ s \in 1..Len(status)
  /\ status[s].owner \in started
  /\ status[s].listener \in {"subscribed", "unsubscribing"}
  /\ TotalCalls(Len(status)) < MaxCalls
  /\ status' = [status EXCEPT ![s] = message_handler(status[s], message)]
  /\ handlerError' = Evaluate(status[s].requirement, message, status[s].calls + 1).raised
  /\ delivered' = [delivered EXCEPT ![s] = @ + 1]
  /\ UNCHANGED <<packages, network, netRemoval, started, targeted, clients,
                 pc, i, j, passed_time, outcome, error, report, pending>>

\* The bridge has processed the unsubscribe request of status s.
Unsubscribed(s) ==
  /\ Running
  /\ s \in 1..Len(status)
  /\ status[s].listener = "unsubscribing"
  /\ status' = [status EXCEPT ![s].listener = "unsubscribed"]
  /\ UNCHANGED <<packages, network, netRemoval, started, targeted, clients,
                 pc, i, j, passed_time, outcome, error, handlerError, report,
                 pending, delivered>>

\* --------------------------------------------------------- polling loop
\* Leaving the loop: run calls stop(), which starts removing containers.
Break(how) ==
  /\ outcome' = how
  /\ pc' = "remove"
  /\ i' = 1

\* passed_time = time.time() - initial_time; if passed_time > self.timeout.
\* The clock never runs backwards.
LoopTimeout ==
  /\ pc = "loop_time"
  /\ \E t \in passed_time..(Timeout + 1) :
       /\ passed_time' = t
       /\ IF t > Timeout
          THEN Break("TIMED_OUT")
          ELSE /\ pc' = "loop_bp"
               /\ UNCHANGED <<outcome, i>>
  /\ UNCHANGED <<packages, network, netRemoval, started, targeted, clients,
                 status, j, error, handlerError, report,
                 pending, delivered>>

\* Mutant: full satisfaction is looked at before the breakpoints.
LoopBreakpoint_swapped ==
  /\ pc = "loop_bp"
  /\ IF Plugin_requirements_satisfied
     THEN Break("ALL_SATISFIED")
     ELSE IF Plugin_breakpoint_satisfied
     THEN Break("BREAKPOINT_HIT")
     ELSE /\ pc' = "loop_sat"
          /\ UNCHANGED <<outcome, i>>
  /\ UNCHANGED <<packages, network, netRemoval, started, targeted, clients,
                 status, j, passed_time, error, handlerError, report,
                 pending, delivered>>

\* elif self.breakpoint_satisfied()
LoopBreakpoint ==
  /\ pc = "loop_bp"
  /\ IF Plugin_breakpoint_satisfied
     THEN Break("BREAKPOINT_HIT")
     ELSE /\ pc' = "loop_sat"
          /\ UNCHANGED <<outcome, i>>
  /\ UNCHANGED <<packages, network, netRemoval, started, targeted, clients,
                 status, j, passed_time, error, handlerError, report,
                 pending, delivered>>

\* elif self.requirements_satisfied()
LoopSatisfied ==
  /\ pc = "loop_sat"
  /\ IF Plugin_requirements_satisfied
     THEN Break("ALL_SATISFIED")
     ELSE /\ pc' = "loop_time"
          /\ UNCHANGED <<outcome, i>>
  /\ UNCHANGED <<packages, network, netRemoval, started, targeted, clients,
                 status, j, passed_time, error, handlerError, report,
                 pending, delivered>>

\* ------------------------------------------------------------- teardown
\* destroy_simulation_infrastructure: remove_container(package.name) for
\* the i-th package returns.
RemoveContainer ==
  /\ pc = "remove"
  /\ targeted' = targeted \cup {packages[i].name}
  /\ started' = started \ {packages[i].name}
  /\ IF i < Len(packages)
     THEN /\ i' = i + 1
          /\ pc' = pc
     ELSE /\ i' = 0
          /\ pc' = "remove_network"
  /\ UNCHANGED <<packages, network, netRemoval, clients, status, j, passed_time,
                 outcome, error, handlerError, report,
                 pending, delivered>>

\* remove_container raises: the exception leaves the loop, stop and run.
RemoveContainerFail ==
  /\ pc = "remove"
  /\ targeted' = targeted \cup {packages[i].name}
  /\ Raise("remove_container")
  /\ UNCHANGED <<packages, network, netRemoval, started, clients, status,
                 i, j, passed_time, outcome, handlerError, report,
                 pending, delivered>>

RemoveNetwork ==
  /\ pc = "remove_network"
  /\ netRemoval' = TRUE
  /\ network' = "removed"
  /\ pc' = "report"
  /\ UNCHANGED <<packages, started, targeted, clients, status, i, j, passed_time,
                 outcome, error, handlerError, report,
                 pending, delivered>>

RemoveNetworkFail ==
  /\ pc = "remove_network"
  /\ netRemoval' = TRUE
  /\ Raise("remove_network")
  /\ UNCHANGED <<packages, network, started, targeted, clients, status, i, j,
                 passed_time, outcome, handlerError, report,
                 pending, delivered>>

\* run prints what get_requirements returns.
Report ==
  /\ pc = "report"
  /\ report' = Plugin_get_requirements
  /\ pc' = "done"
  /\ UNCHANGED <<packages, network, netRemoval, started, targeted, clients,
                 status, i, j, passed_time, outcome, error, handlerError,
                 pending, delivered>>

DeliverMessage == \E s \in 1..Len(status) : \E message \in Messages : Deliver(s, message)

UnsubscribeDone == \E s \in 1..Len(status) : Unsubscribed(s)

Next ==
  \/ CreateNetwork
  \/ CreateNetworkFail
  \/ StartContainer
  \/ StartContainerFail
  \/ StartContainerFailRunning
  \/ ConnectBridge
  \/ ConnectBridgeFail
  \/ AddRequirement
  \/ AddRequirementFail
  \/ DeliverMessage
  \/ UnsubscribeDone
  \/ LoopTimeout
  \/ LoopBreakpoint
  \/ LoopSatisfied
  \/ RemoveContainer
  \/ RemoveContainerFail
  \/ RemoveNetwork
  \/ RemoveNetworkFail
  \/ Report

Spec == Init /\ [][Next]_vars

\* ------------------------------------------- one requirement, in detail
\* A second specification: one package that declares one requirement, of
\* any condition, value, breakpoint flag and with or without a field.  The
\* declaration is first built (the validator runs), and the handler is
\* taken statement by statement, so that the polling loop and the report
\* can read a status between its first statement and the rest.
Declarations ==
  [condition : ConditionEnum, value : 1..MaxValue, breakpoint : BOOLEAN,
   field : {"state", None}]

InitRequirement ==
  /\ packages \in { <<ROSPackageContainer(1, <<k>>)>> : k \in Declarations }
  /\ network = "none"
  /\ netRemoval = FALSE
  /\ started = {}
  /\ targeted = {}
  /\ clients = <<>>
  /\ status = <<>>
  /\ pc = "config"
  /\ i = 0
  /\ j = 0
  /\ passed_time = 0
  /\ outcome = "unset"
  /\ error = "none"
  /\ handlerError = FALSE
  /\ report = <<>>
  /\ pending = {}
  /\ delivered = <<>>

\* SimulationRequirement(...) for every declared requirement: the validator
\* of field raises RigelError, or the plugin is ready to run.
Construct ==
  /\ pc = "config"
  /\ IF \A p \in 1..Len(packages) : \A n \in 1..Len(packages[p].introspection) :
          validate_date(packages[p].introspection[n].condition,
                        packages[p].introspection[n].field)
     THEN /\ pc' = "idle"
          /\ UNCHANGED error
     ELSE Raise("RigelError")
  /\ UNCHANGED <<packages, network, netRemoval, started, targeted, clients,
                 status, i, j, passed_time, outcome, handlerError, report,
                 pending, delivered>>

InHandler(s) == \E p \in pending : p[1] = s

\* The bridge calls the handler of status s, which runs its first statement.
HandlerEnter(s, message) ==
  /\ Running
  /\ s \in 1..Len(status)
  /\ status[s].owner \in started
  /\ status[s].listener \in {"subscribed", "unsubscribing"}
  /\ ~ InHandler(s)
  /\ TotalCalls(Len(status)) < MaxCalls
  /\ status' = [status EXCEPT ![s] = handler_count(status[s], message)]
  /\ pending' = pending \cup {<<s, message>>}
  /\ delivered' = [delivered EXCEPT ![s] = @ + 1]
  /\ UNCHANGED <<packages, network, netRemoval, started, targeted, clients,
                 pc, i, j, passed_time, outcome, error, handlerError, report>>

\* The handler of status s runs the rest of its body.
HandlerFinish(s, message) ==
  /\ Running
  /\ <<s, message>> \in pending
  /\ status' = [status EXCEPT ![s] = handler_evaluate(status[s], message)]
  /\ handlerError' = Evaluate(status[s].requirement, message, status[s].calls).raised
  /\ pending' = pending \ {<<s, message>>}
  /\ UNCHANGED <<packages, network, netRemoval, started, targeted, clients,
                 pc, i, j, passed_time, outcome, error, report, delivered>>

HandlerEnterMessage ==
  \E s \in 1..Len(status) : \E message \in Messages : HandlerEnter(s, message)

HandlerFinishMessage ==
  \E p \in pending : HandlerFinish(p[1], p[2])

NextRequirement ==
  \/ Construct
  \/ CreateNetwork
  \/ CreateNetworkFail
  \/ StartContainer
  \/ StartContainerFail
  \/ StartContainerFailRunning
  \/ ConnectBridge
  \/ ConnectBridgeFail
  \/ AddRequirement
  \/ AddRequirementFail
  \/ HandlerEnterMessage
  \/ HandlerFinishMessage
  \/ UnsubscribeDone
  \/ LoopTimeout
  \/ LoopBreakpoint
  \/ LoopSatisfied
  \/ RemoveContainer
  \/ RemoveContainerFail
  \/ RemoveNetwork
  \/ RemoveNetworkFail
  \/ Report

SpecRequirement == InitRequirement /\ [][NextRequirement]_vars

\* ================================================================ claims
Statuses == 1..Len(status)

IsBreakpoint(s) == status[s].requirement.breakpoint

\* C1: once a status is satisfied it stays satisfied over every later
\* delivery to its handler, also one that arrives after the unsubscribe
\* request.  (Stated as: no step turns satisfied from TRUE to FALSE.)
C1_SatisfiedNeverReverts ==
  [][\A s \in Statuses : status[s].satisfied => status'[s].satisfied]_vars

\* C2: Plugin.requirements_satisfied is true exactly when a client exists
\* and every status of a non-breakpoint requirement is satisfied, whatever
\* the breakpoint statuses are.  Stated over the states in which some
\* non-breakpoint requirement is registered.
C2_AllSatisfiedIgnoresBreakpoints ==
  (\E s \in Statuses : ~ IsBreakpoint(s)) =>
    (Plugin_requirements_satisfied <=>
       /\ Len(clients) >= 1
       /\ \A s \in Statuses : ~ IsBreakpoint(s) => status[s].satisfied)

\* C3: every poll checks timeout, then breakpoint, then full satisfaction.
\* A poll that reads a time past the timeout ends the run TIMED_OUT whatever
\* the statuses are; the breakpoint check is reached only below the timeout
\* and, when a breakpoint is satisfied, ends the run BREAKPOINT_HIT whatever
\* requirements_satisfied returns; requirements_satisfied is looked at only
\* after the breakpoint check found nothing, and only it yields ALL_SATISFIED.
C3_PollOrder ==
  [][/\ (pc = "loop_time" /\ pc' # "loop_time" /\ passed_time' > Timeout)
          => outcome' = "TIMED_OUT"
     /\ (outcome = "unset" /\ outcome' = "TIMED_OUT")
          => (pc = "loop_time" /\ passed_time' > Timeout)
     /\ (pc' = "loop_bp" /\ pc # "loop_bp")
          => (pc = "loop_time" /\ passed_time' <= Timeout)
     /\ (pc = "loop_bp" /\ pc' # "loop_bp" /\ Plugin_breakpoint_satisfied)
          => outcome' = "BREAKPOINT_HIT"
     /\ (outcome = "unset" /\ outcome' = "BREAKPOINT_HIT")
          => (pc = "loop_bp" /\ Plugin_breakpoint_satisfied)
     /\ (pc' = "loop_sat" /\ pc # "loop_sat")
          => (pc = "loop_bp" /\ ~ Plugin_breakpoint_satisfied)
     /\ (outcome = "unset" /\ outcome' = "ALL_SATISFIED")
          => (pc = "loop_sat" /\ Plugin_requirements_satisfied)
    ]_vars

\* A breakpoint and full satisfaction held at the same poll, below the
\* timeout, and the run ended as a breakpoint.
C3_Witness ==
  /\ outcome = "BREAKPOINT_HIT"
  /\ pc = "remove"
  /\ i = 1
  /\ passed_time <= Timeout
  /\ Plugin_breakpoint_satisfied
  /\ Plugin_requirements_satisfied

\* C4: when starting a container fails, every container already started is
\* targeted for removal and the removal of the network is attempted.
C4_StartFailureTearsDown ==
  (pc = "failed" /\ error \in {"run_container", "wait_for_container"}) =>
    (started \subseteq targeted /\ netRemoval)

\* C5: when the removal of one container fails, the removal of every other
\* container and of the network is still attempted.
C5_TeardownBestEffort ==
  (pc = "failed" /\ error = "remove_container") =>
    /\ \A p \in 1..Len(packages) : packages[p].name \in targeted
    /\ netRemoval

\* C6: a failure to connect to a bridge or to subscribe to a topic does not
\* abort the run.
C6_ConnectFailureDoesNotAbort ==
  ~ (pc = "failed" /\ error \in {"connect", "subscribe"})

\* C7: a message without the field, or with a value that cannot be compared,
\* is counted and skipped: no error escapes the handler.
C7_NoHandlerErrorEscapes ==
  handlerError = FALSE

ReportLines(wantBreakpoint) ==
  LET kept == SelectSeq(status, LAMBDA rs : rs.requirement.breakpoint = wantBreakpoint)
  IN  [n \in 1..Len(kept) |-> FormatMessage(kept[n])]

\* C8: the final report holds one entry per registered status, the
\* non-breakpoint ones under REQUIREMENTS and the others under BREAKPOINTS,
\* in registration order, for any number of clients.
C8_ReportOneEntryPerStatus ==
  pc = "done" => report = <<ReportLines(FALSE), ReportLines(TRUE)>>

\* C9: Plugin.breakpoint_satisfied is true exactly when a client exists and
\* the status of some breakpoint requirement is satisfied; with every
\* non-breakpoint status satisfied and no breakpoint status satisfied it is
\* false.
C9_AnyBreakpointSatisfied ==
  /\ Plugin_breakpoint_satisfied <=>
       /\ Len(clients) >= 1
       /\ \E s \in Statuses : IsBreakpoint(s) /\ status[s].satisfied
  /\ (/\ \A s \in Statuses : ~ IsBreakpoint(s) => status[s].satisfied
      /\ \A s \in Statuses : IsBreakpoint(s) => ~ status[s].satisfied)
       => ~ Plugin_breakpoint_satisfied

\* A client exists, a non-breakpoint status is satisfied, a breakpoint
\* status is registered and not satisfied, and the loop is at the check.
C9_Witness ==
  /\ pc = "loop_bp"
  /\ Len(clients) >= 1
  /\ \E s \in Statuses : ~ IsBreakpoint(s)
  /\ \A s \in Statuses : ~ IsBreakpoint(s) => status[s].satisfied
  /\ \E s \in Statuses : IsBreakpoint(s)
  /\ ~ Plugin_breakpoint_satisfied

\* C10: with no client, Plugin.requirements_satisfied is false.
C10_NoClientsNotSatisfied ==
  clients = <<>> => ~ Plugin_requirements_satisfied

\* The polling loop evaluates requirements_satisfied with no client.
C10_Witness ==
  /\ pc = "loop_sat"
  /\ clients = <<>>

NonBreakpointsSatisfied ==
  /\ \E s \in Statuses : ~ IsBreakpoint(s)
  /\ \A s \in Statuses : ~ IsBreakpoint(s) => status[s].satisfied

NoBreakpointSatisfied ==
  \A s \in Statuses : IsBreakpoint(s) => ~ status[s].satisfied

\* C11: when every non-breakpoint requirement is satisfied before the
\* timeout and no breakpoint is satisfied, the polling loop ends the run
\* ALL_SATISFIED.  Stated on the poll itself: a poll that read a time below
\* the timeout, found no breakpoint and reaches the satisfaction check with
\* every non-breakpoint status satisfied ends the run ALL_SATISFIED.
C11_SatisfiedRunEndsAllSatisfied ==
  [][(/\ pc = "loop_sat"
      /\ pc' # "loop_sat"
      /\ Len(clients) >= 1
      /\ NonBreakpointsSatisfied
      /\ NoBreakpointSatisfied) => outcome' = "ALL_SATISFIED"]_vars

AllTargeted == \A p \in 1..Len(packages) : packages[p].name \in targeted

\* C12: a run that is left by the timeout branch performs the teardown and
\* reports every requirement that received no matching message as FAILURE.
\* Stated on the end of the run: a timed-out run that has ended has removed
\* its containers and its network and holds a report in which every status
\* that is not satisfied is listed with FALSE.
C12_TimedOutRunReportsFailures ==
  (outcome = "TIMED_OUT" /\ pc \in {"done", "failed"}) =>
    /\ pc = "done"
    /\ AllTargeted
    /\ netRemoval
    /\ \A s \in Statuses :
         ~ status[s].satisfied =>
           \E n \in 1..Len(report[IF IsBreakpoint(s) THEN 2 ELSE 1]) :
              report[IF IsBreakpoint(s) THEN 2 ELSE 1][n] = FormatMessage(status[s])

\* The polling loop with the scheduling it has: the loop thread keeps
\* running, and the clock it reads advances.
TimePasses == LoopTimeout /\ passed_time' > passed_time

FairSpec ==
  /\ Spec
  /\ WF_vars(LoopTimeout)
  /\ WF_vars(LoopBreakpoint)
  /\ WF_vars(LoopSatisfied)
  /\ SF_vars(TimePasses)

\* The part of C12 about the loop alone: the polling loop is always left,
\* and it is left as TIMED_OUT only on a time past the timeout.
C12_LoopTerminates ==
  /\ (pc = "loop_time") ~> (outcome # "unset")
  /\ [](outcome = "TIMED_OUT" => passed_time > Timeout)

IsReceived(s) == status[s].requirement.condition = "RECEIVED"

\* C13: for a RECEIVED requirement with declared value N the evaluation of
\* the k-th delivered message yields satisfied exactly when k = N, and the
\* status is not satisfied while fewer than N messages were delivered.
C13_ReceivedExactCount ==
  /\ [][\A s \in Statuses :
          (IsReceived(s) /\ InHandler(s) /\ ~ (\E p \in pending' : p[1] = s))
            => (status'[s].satisfied <=> delivered[s] = status[s].requirement.value)]_vars
  /\ [](\A s \in Statuses :
          (IsReceived(s) /\ delivered[s] < status[s].requirement.value)
            => ~ status[s].satisfied)

\* The second message satisfied a RECEIVED requirement that declares 2.
C13_Witness ==
  \E s \in Statuses :
    /\ IsReceived(s)
    /\ status[s].requirement.value = 2
    /\ delivered[s] = 2
    /\ ~ InHandler(s)
    /\ status[s].satisfied

Valid(r) == r.field # None \/ r.condition = "RECEIVED"

\* C14: building a requirement without a field fails for every condition
\* but RECEIVED and succeeds for RECEIVED, building one with a field
\* succeeds for every condition, and no requirement without a field and
\* with another condition than RECEIVED is ever registered.
C14_FieldRequiredUnlessReceived ==
  /\ [][(pc = "config" /\ pc' # "config") =>
          \A p \in 1..Len(packages) : \A n \in 1..Len(packages[p].introspection) :
             /\ (pc' = "failed" /\ error' = "RigelError")
                  <=> ~ Valid(packages[p].introspection[n])
             /\ pc' = "idle" <=> Valid(packages[p].introspection[n])]_vars
  /\ [](\A s \in Statuses : Valid(status[s].requirement))

\* A RECEIVED requirement without a field was built and registered.
C14_Witness ==
  \E s \in Statuses : IsReceived(s) /\ status[s].requirement.field = None

\* C15: whatever the interleaving of a handler with the polling loop, a
\* status read as satisfied has a count of at least 1, and of at least the
\* declared value for a RECEIVED requirement.
C15_SatisfiedImpliesCounted ==
  \A s \in Statuses :
    status[s].satisfied =>
      /\ status[s].calls >= 1
      /\ IsReceived(s) => status[s].calls >= status[s].requirement.value

\* The polling loop reads the statuses while a handler is between its first
\* statement and the rest, on a status that is satisfied.
C15_Witness ==
  /\ pc = "loop_sat"
  /\ \E s \in Statuses : InHandler(s) /\ status[s].satisfied /\ status[s].calls = 2

\* C16: calls starts at 0 and equals the number of messages delivered to
\* the handler of the status, whether they match, do not match or make the
\* comparison raise.
C16_CallsCountDeliveries ==
  /\ Len(delivered) = Len(status)
  /\ \A s \in Statuses : status[s].calls = delivered[s]

\* Two messages were delivered and the comparison of the last one raised.
C16_Witness ==
  /\ handlerError
  /\ \E s \in Statuses : delivered[s] = 2 /\ ~ InHandler(s)

Polling == pc \in {"loop_time", "loop_bp", "loop_sat"}

\* The loop of bringup_ros_nodes has ended without an exception.
BringUpDone ==
  \/ Polling
  \/ pc \in {"remove", "remove_network", "report", "done"}
  \/ pc = "failed" /\ error \in {"remove_container", "remove_network"}

Introspected == { p \in 1..Len(packages) : packages[p].introspection # <<>> }

\* C17: a package with an empty introspection list gets no client: after
\* bring-up there are as many clients as packages with a non-empty list, one
\* for each and none for the master; a run without any introspection is left
\* only by the timeout.
C17_ClientsAreIntrospectedPackages ==
  /\ \A c \in 1..Len(clients) :
       /\ clients[c].host # MasterName
       /\ \E p \in Introspected : packages[p].name = clients[c].host
  /\ BringUpDone =>
       /\ Len(clients) = Cardinality(Introspected)
       /\ \A p \in Introspected :
            \E c \in 1..Len(clients) : clients[c].host = packages[p].name
  /\ Introspected = {} =>
       /\ clients = <<>>
       /\ outcome \in {"unset", "TIMED_OUT"}

\* Two packages run besides the master, one of them with introspection, and
\* the loop polls with one client.
C17_Witness ==
  /\ Polling
  /\ Len(packages) = 3
  /\ Cardinality(Introspected) = 1
  /\ Len(clients) = 1

Names(k) == { packages[p].name : p \in 1..k }

AllNames == Names(Len(packages))

\* C18: without infrastructure failure the phases follow each other in one
\* order: the network, the master, the other containers in the order of
\* the package list, the polling loop, the removal of every container in
\* that order, the removal of the network, the report.
C18_PhaseOrder ==
  error = "none" =>
    /\ pc = "idle" => (network = "none" /\ started = {})
    /\ started # {} => (network = "created" /\ packages[1].name = MasterName)
    /\ (started # {} /\ targeted = {}) => MasterName \in started
    /\ pc = "start" => started = Names(i - 1)
    /\ pc \in {"connect", "register"} => started = Names(i)
    /\ pc \in {"idle", "start", "connect", "register"} => outcome = "unset"
    /\ Polling => (started = AllNames /\ targeted = {} /\ outcome = "unset")
    /\ targeted # {} => outcome # "unset"
    /\ pc = "remove" => (targeted = Names(i - 1) /\ started = AllNames \ targeted)
    /\ pc = "remove_network" => (targeted = AllNames /\ started = {})
    /\ netRemoval <=> network = "removed"
    /\ network = "removed" => (targeted = AllNames /\ started = {})
    /\ pc \in {"report", "done"} => network = "removed"
    /\ report # <<>> <=> pc = "done"

\* A run over the master and two packages went through every phase.
C18_Witness ==
  /\ pc = "done"
  /\ error = "none"
  /\ Len(packages) = 3
  /\ outcome = "ALL_SATISFIED"

\* C19: a client holds only the statuses registered on it: a client just
\* created holds none, and every status a client holds listens on the
\* bridge of that client.
C19_ClientHoldsOwnStatuses ==
  /\ (pc = "register" /\ j = 1) =>
       ClientStatus([host |-> packages[i].name]) = <<>>
  /\ \A c \in 1..Len(clients) :
       \A n \in 1..Len(ClientStatus(clients[c])) :
          ClientStatus(clients[c])[n].owner = clients[c].host

====
